---- MODULE Spec2Model ----
(***************************************************************************)
(* Bike Connect backend: the request handlers of src/api/routes_*.py over  *)
(* the relational store of src/api/db.py, the bearer-token guard of        *)
(* src/api/deps.py and the token service of src/api/security.py.           *)
(*                                                                         *)
(* Store: PostgreSQL at its default isolation (read committed).  Every     *)
(* statement reads the latest committed rows plus the transaction's own    *)
(* writes; an INSERT that collides with a committed key raises             *)
(* IntegrityError, one that collides with an uncommitted key waits for the *)
(* other transaction to end.  A handler is therefore modelled in at most   *)
(* two steps: its leading SELECT (the guard's SELECT is merged into it:    *)
(* no operation deletes or re-keys a users row, so the guard commutes with *)
(* every other step), and then every remaining statement together with the *)
(* commit.  The second step is atomic because between a transaction's      *)
(* first write and its commit other transactions can neither see the       *)
(* writes nor pass the locks they hold.                                    *)
(***************************************************************************)
EXTENDS Integers, FiniteSets, Sequences, Bags, TLC

VARIABLES
    db,        \* the committed rows of the six tables + rides (db.py 30-100)
    now,       \* the wall clock, in ticks of 1/TicksPerSecond second
    inflight,  \* bag of requests between their first and their second step
    overlap,   \* some request began while another one was in flight
    last,      \* the response most recently returned to a client
    held       \* the token most recently returned by login, with its issue time

vars == <<db, now, inflight, overlap, last, held>>

----------------------------------------------------------------------------
\* Bounds of the model.

MaxInFlight == 2
MaxNow == 2
MaxMessages == 2
MaxRides == 2
JwtExpiresMinutes == 1
TicksPerSecond == 2

\* Program constants.
SecondsPerMinute == 60
MinPasswordLength == 6
ListLimit == 200

TtlTicks == JwtExpiresMinutes * SecondsPerMinute * TicksPerSecond
MaxTokenTime == MaxNow + TtlTicks + 1

----------------------------------------------------------------------------
\* Values.

NULL == "NULL"                      \* Python None / SQL NULL
Emails == {"a@x", "b@x"}
Passwords == {"secret1", "secret2", "short"}
DisplayNames == {NULL, "Ann"}
NoUser == 0                         \* no row / no subject
MaxUsers == Cardinality(Emails)     \* users.email is unique
UserIds == 1..MaxUsers
SubjectIds == 0..(MaxUsers + 1)     \* 0: empty "sub"; MaxUsers+1: never a user

EmptyDb ==
    [users |-> {}, profiles |-> {}, locations |-> {}, conversations |-> {},
     conversation_participants |-> {}, messages |-> {}, rides |-> {}]

NoBody == [kind |-> "none"]

----------------------------------------------------------------------------
\* Credential & token service (security.py).

\* hash_password: a salted one-way hash; only its verification is observable.
hash_password(password) == <<"bcrypt", password>>

verify_password(password, password_hash) == password_hash = hash_password(password)

create_access_token_no_lifetime(subject, t) ==
    [kind |-> "jwt", sub |-> subject, sig |-> "HS256:secret",
     iat |-> t \div TicksPerSecond, exp |-> t \div TicksPerSecond]

\* create_access_token at clock t: iat and exp are whole seconds (int()).
create_access_token(subject, t) ==
    [kind |-> "jwt", sub |-> subject, sig |-> "HS256:secret",
     iat |-> t \div TicksPerSecond,
     exp |-> (t + JwtExpiresMinutes * SecondsPerMinute * TicksPerSecond)
                \div TicksPerSecond]

decode_access_token_no_signature(token, t) ==
    IF token.kind # "jwt" \/ token.exp * TicksPerSecond <= t
    THEN [ok |-> FALSE, sub |-> NoUser]
    ELSE [ok |-> TRUE, sub |-> token.sub]

\* decode_access_token at clock t: jwt.decode checks the HS256 signature and
\* rejects a token whose exp is not after the current time.
decode_access_token(token, t) ==
    IF token.kind # "jwt" \/ token.sig # "HS256:secret"
         \/ token.exp * TicksPerSecond <= t
    THEN [ok |-> FALSE, sub |-> NoUser]
    ELSE [ok |-> TRUE, sub |-> token.sub]

NoCredentials == [kind |-> "none"]
Garbage == [kind |-> "garbage"]

----------------------------------------------------------------------------
\* Responses.

Response(status, detail, body) == [status |-> status, detail |-> detail, body |-> body]

InternalError == Response(500, "Internal Server Error", NoBody)
ValidationError == Response(422, "Unprocessable Entity", NoBody)

----------------------------------------------------------------------------
\* Authentication guard (deps.py).

UserById(d, user_id) == {u \in d.users : u.id = user_id}

\* get_current_user: the credential resolved to a users row, or a 401.
get_current_user(creds, d, t) ==
    IF creds.kind = "none"
    THEN [ok |-> FALSE, id |-> NoUser, resp |-> Response(401, "Not authenticated", NoBody)]
    ELSE LET payload == decode_access_token(creds, t) IN
         IF ~payload.ok \/ payload.sub = NoUser
         THEN [ok |-> FALSE, id |-> NoUser, resp |-> Response(401, "Invalid token", NoBody)]
         ELSE IF UserById(d, payload.sub) = {}
         THEN [ok |-> FALSE, id |-> NoUser, resp |-> Response(401, "User not found", NoBody)]
         ELSE [ok |-> TRUE, id |-> payload.sub, resp |-> Response(200, "", NoBody)]

----------------------------------------------------------------------------
\* Persistence gateway (db.py): statements against a transaction's view d of
\* the store.  A statement yields the view after it and whether it raised
\* ("sql": an SQLAlchemyError, "http": an HTTPException, "error": any other).

Txn(d) == [db |-> d, exc |-> "none"]
Raise(d, exc) == [db |-> d, exc |-> exc]

\* The k-th statement of a transaction; fault = k makes the store fail there.
Stmt(res, k, fault, S(_)) ==
    IF res.exc # "none" THEN res
    ELSE IF fault = k THEN Raise(res.db, "sql")
    ELSE S(res.db)

insert_users(d, row) ==
    IF \E u \in d.users : u.id = row.id \/ u.email = row.email
    THEN Raise(d, "sql")
    ELSE Txn([d EXCEPT !.users = @ \cup {row}])

insert_profiles(d, row) ==
    IF (\E p \in d.profiles : p.user_id = row.user_id) \/ UserById(d, row.user_id) = {}
    THEN Raise(d, "sql")
    ELSE Txn([d EXCEPT !.profiles = @ \cup {row}])

\* session_scope: commit on normal exit, rollback on SQLAlchemyError; any
\* other exception skips the commit and close() discards the transaction.
session_scope_commits_partial(d, res) == res.db

session_scope(d, res) == IF res.exc = "none" THEN res.db ELSE d

FreshId(rows) == CHOOSE i \in 1..(Cardinality(rows) + 1) : \A r \in rows : r.id # i

----------------------------------------------------------------------------
\* Requests.  A request that has run its first step and not yet its second is
\* a record of the bag inflight: its operation, credential, resolved caller,
\* validated body, what its leading SELECT found and the clock it read.

Request(op, creds, caller, req, found, at) ==
    [op |-> op, creds |-> creds, caller |-> caller, req |-> req, found |-> found, at |-> at]

InFlight(op) == {r \in BagToSet(inflight) : r.op = op}

NoResponse ==
    [op |-> "none", creds |-> NoCredentials, caller |-> NoUser, req |-> NoBody,
     status |-> 0, detail |-> "", body |-> NoBody, step |-> 0, solo |-> TRUE]

\* A handler runs only while no response is on its way back to a client.
Reply(op, creds, caller, req, resp, step, solo) ==
    /\ last = NoResponse
    /\ last' = [op |-> op, creds |-> creds, caller |-> caller, req |-> req,
                status |-> resp.status, detail |-> resp.detail, body |-> resp.body,
                step |-> step, solo |-> solo]

\* The request passes its first step and waits for its second.
Enter(r) ==
    /\ last = NoResponse
    /\ BagCardinality(inflight) < MaxInFlight
    /\ inflight' = inflight (+) SetToBag({r})
    /\ overlap' = (overlap \/ inflight # EmptyBag)
    /\ last' = last

\* The request is answered in its first step.
Answer(op, creds, caller, req, resp) ==
    /\ inflight' = inflight
    /\ overlap' = (overlap \/ inflight # EmptyBag)
    /\ Reply(op, creds, caller, req, resp, 1, inflight = EmptyBag)

\* The request is answered in its second step.
Finish(r, resp) ==
    /\ inflight' = inflight (-) SetToBag({r})
    /\ overlap' = (IF inflight' = EmptyBag THEN FALSE ELSE overlap)
    /\ Reply(r.op, r.creds, r.caller, r.req, resp, 2, ~overlap)

\* The response reaches its client.
Deliver ==
    /\ last # NoResponse
    /\ last' = NoResponse
    /\ UNCHANGED <<db, now, inflight, overlap, held>>

NoToken == [token |-> NoCredentials, at |-> 0, email |-> ""]

Init ==
    /\ db = EmptyDb
    /\ now = 0
    /\ inflight = EmptyBag
    /\ overlap = FALSE
    /\ last = NoResponse
    /\ held = NoToken

\* Time passes.
Tick(max) ==
    /\ last = NoResponse
    /\ now < max
    /\ now' = now + 1
    /\ UNCHANGED <<db, inflight, overlap, last, held>>

----------------------------------------------------------------------------
\* Account (routes_auth.py).

MeResponse(user) ==
    [kind |-> "me", id |-> user.id, email |-> user.email, display_name |-> user.display_name]

UserRow(user_id, req) ==
    [id |-> user_id, email |-> req.email, password_hash |-> hash_password(req.password),
     display_name |-> req.display_name]

DefaultProfile(user_id, req, t) ==
    [user_id |-> user_id, display_name |-> req.display_name, bio |-> "",
     pace |-> "casual", bike_type |-> "road", looking_for |-> "friends",
     home_base |-> "", updated_at |-> t]

EmailTaken(d, email) == \E u \in d.users : u.email = email

register_select_unchecked(req) ==
    /\ IF Len(req.password) < MinPasswordLength
       THEN Answer("register", NoCredentials, NoUser, req, ValidationError)
       ELSE Enter(Request("register", NoCredentials, NoUser, req, FALSE, now))
    /\ UNCHANGED <<db, now, held>>

\* register, first step: boundary validation, then the existence SELECT.
register_select(req) ==
    /\ IF Len(req.password) < MinPasswordLength
       THEN Answer("register", NoCredentials, NoUser, req, ValidationError)
       ELSE IF EmailTaken(db, req.email)
       THEN Answer("register", NoCredentials, NoUser, req,
                   Response(409, "Email already registered", NoBody))
       ELSE Enter(Request("register", NoCredentials, NoUser, req, FALSE, now))
    /\ UNCHANGED <<db, now, held>>

\* The two INSERTs of register.
register_inserts(d, req, user_id, t, fault) ==
    Stmt(Stmt(Txn(d), 1, fault, LAMBDA v : insert_users(v, UserRow(user_id, req))),
         2, fault, LAMBDA v : insert_profiles(v, DefaultProfile(user_id, req, t)))

\* register, second step: the INSERTs and the commit.
register_insert(r, fault) ==
    LET user_id == FreshId(db.users)
        res == register_inserts(db, r.req, user_id, now, fault)
    IN /\ db' = session_scope(db, res)
       /\ Finish(r, IF res.exc = "none"
                    THEN Response(201, "", MeResponse(UserRow(user_id, r.req)))
                    ELSE InternalError)
       /\ UNCHANGED <<now, held>>

InvalidCredentials == Response(401, "Invalid credentials", NoBody)

login_result_leaky(d, req, t) ==
    LET rows == {u \in d.users : u.email = req.email} IN
    IF rows = {}
    THEN [resp |-> Response(404, "User not found", NoBody), token |-> NoCredentials]
    ELSE LET row == CHOOSE u \in rows : TRUE
             token == create_access_token(row.id, t)
         IN IF ~verify_password(req.password, row.password_hash)
            THEN [resp |-> InvalidCredentials, token |-> NoCredentials]
            ELSE [resp |-> Response(200, "", [kind |-> "token", access_token |-> token,
                                              token_type |-> "bearer"]),
                  token |-> token]

\* What login answers, and the token it issues (NoCredentials when none).
login_result(d, req, t) ==
    LET rows == {u \in d.users : u.email = req.email} IN
    IF rows = {}
    THEN [resp |-> InvalidCredentials, token |-> NoCredentials]
    ELSE LET row == CHOOSE u \in rows : TRUE
             token == create_access_token(row.id, t)
         IN IF ~verify_password(req.password, row.password_hash)
            THEN [resp |-> InvalidCredentials, token |-> NoCredentials]
            ELSE [resp |-> Response(200, "", [kind |-> "token", access_token |-> token,
                                              token_type |-> "bearer"]),
                  token |-> token]

login(req) ==
    LET out == login_result(db, req, now) IN
    /\ Answer("login", NoCredentials, NoUser, req, out.resp)
    /\ held' \in IF out.token = NoCredentials THEN {held}
                  ELSE {held, [token |-> out.token, at |-> now, email |-> req.email]}
    /\ UNCHANGED <<db, now>>

----------------------------------------------------------------------------
\* Profiles (routes_profiles.py).

ProfileFields == {"display_name", "bio", "pace", "bike_type", "looking_for", "home_base"}

SuppliedAll(req) == ProfileFields

\* values = {k: v for k, v in req.model_dump().items() if v is not None}
Supplied(req) == {f \in ProfileFields : req[f] # NULL}

\* GET /me
me(creds) ==
    LET auth == get_current_user(creds, db, now) IN
    /\ IF ~auth.ok
       THEN Answer("me", creds, NoUser, NoBody, auth.resp)
       ELSE Answer("me", creds, auth.id, NoBody,
                   Response(200, "", MeResponse(CHOOSE u \in UserById(db, auth.id) : TRUE)))
    /\ UNCHANGED <<db, now, held>>

ProfileOf(d, user_id) == {p \in d.profiles : p.user_id = user_id}

ProfileResponse(row) == [kind |-> "profile", row |-> row]

\* GET /profiles/{user_id}
get_profile(creds, user_id) ==
    LET auth == get_current_user(creds, db, now)
        req == [user_id |-> user_id]
    IN
    /\ IF ~auth.ok
       THEN Answer("get_profile", creds, NoUser, req, auth.resp)
       ELSE IF ProfileOf(db, user_id) = {}
       THEN Answer("get_profile", creds, auth.id, req, Response(404, "Profile not found", NoBody))
       ELSE Answer("get_profile", creds, auth.id, req,
                   Response(200, "", ProfileResponse(CHOOSE p \in ProfileOf(db, user_id) : TRUE)))
    /\ UNCHANGED <<db, now, held>>

\* PUT /profiles/me, first step: the guard and the SELECT of the caller's row.
update_me_select(creds, req) ==
    LET auth == get_current_user(creds, db, now) IN
    /\ IF ~auth.ok
       THEN Answer("update_me", creds, NoUser, req, auth.resp)
       ELSE Enter(Request("update_me", creds, auth.id, req, ProfileOf(db, auth.id) # {}, now))
    /\ UNCHANGED <<db, now, held>>

\* UPDATE profiles SET <values>, updated_at = <onupdate> WHERE user_id = ...
update_profiles(d, user_id, req, t) ==
    Txn([d EXCEPT !.profiles =
        {IF p.user_id # user_id THEN p
         ELSE [f \in DOMAIN p |->
                 IF f \in Supplied(req) THEN req[f]
                 ELSE IF f = "updated_at" THEN t ELSE p[f]] : p \in @}])

update_users_display_name_skipped(d, user_id, display_name) == Txn(d)

\* UPDATE users SET display_name = ... WHERE id = ...
update_users_display_name(d, user_id, display_name) ==
    Txn([d EXCEPT !.users =
        {IF u.id # user_id THEN u ELSE [u EXCEPT !.display_name = display_name] : u \in @}])

\* The statements of update_me after its SELECT.
update_me_statements(d, user_id, req, found, t, fault) ==
    LET s1 == Stmt(Txn(d), 1, fault, LAMBDA v :
                IF ~found
                THEN insert_profiles(v, [f \in ProfileFields \cup {"user_id", "updated_at"} |->
                        IF f = "user_id" THEN user_id
                        ELSE IF f = "updated_at" THEN t ELSE req[f]])
                ELSE update_profiles(v, user_id, req, t))
        s2 == IF "display_name" \in Supplied(req)
              THEN Stmt(s1, 2, fault, LAMBDA v :
                        update_users_display_name(v, user_id, req.display_name))
              ELSE s1
    IN Stmt(s2, 3, fault, LAMBDA v :
            IF ProfileOf(v, user_id) = {} THEN Raise(v, "error") ELSE Txn(v))

\* PUT /profiles/me, second step: the writes, the final SELECT and the commit.
update_me_write(r, fault) ==
    LET res == update_me_statements(db, r.caller, r.req, r.found, now, fault) IN
    /\ db' = session_scope(db, res)
    /\ Finish(r, IF res.exc = "none"
                 THEN Response(200, "", ProfileResponse(CHOOSE p \in ProfileOf(res.db, r.caller) : TRUE))
                 ELSE InternalError)
    /\ UNCHANGED <<now, held>>

----------------------------------------------------------------------------
\* Location and nearby (routes_location.py).

\* _haversine_km in metres (rounded down) on the grid of whole degrees 0..1:
\* 6371.0 km * c, computed as the code computes it.
haversine_m(lat1, lng1, lat2, lng2) ==
    IF lat1 = lat2 /\ lng1 = lng2 THEN 0
    ELSE IF lat1 # lat2 /\ lng1 # lng2 THEN 157249
    ELSE IF lat1 = lat2 /\ lat1 = 1 THEN 111177
    ELSE 111194

LocationOf(d, user_id) == {l \in d.locations : l.user_id = user_id}

ValidLocation(req) == req.lat >= -90 /\ req.lat <= 90 /\ req.lng >= -180 /\ req.lng <= 180

\* POST /location, first step: the guard, the validation and the SELECT.
update_location_select(creds, req) ==
    LET auth == get_current_user(creds, db, now) IN
    /\ IF ~auth.ok
       THEN Answer("update_location", creds, NoUser, req, auth.resp)
       ELSE IF ~ValidLocation(req)
       THEN Answer("update_location", creds, auth.id, req, ValidationError)
       ELSE Enter(Request("update_location", creds, auth.id, req, LocationOf(db, auth.id) # {}, now))
    /\ UNCHANGED <<db, now, held>>

insert_locations(d, row) ==
    IF LocationOf(d, row.user_id) # {} \/ UserById(d, row.user_id) = {}
    THEN Raise(d, "sql")
    ELSE Txn([d EXCEPT !.locations = @ \cup {row}])

update_locations(d, row) ==
    Txn([d EXCEPT !.locations = {IF l.user_id = row.user_id THEN row ELSE l : l \in @}])

\* The UPDATE or INSERT of update_location, chosen by what its SELECT found.
update_location_statements(d, user_id, req, found, at, fault) ==
    LET row == [user_id |-> user_id, lat |-> req.lat, lng |-> req.lng, updated_at |-> at]
    IN Stmt(Txn(d), 1, fault, LAMBDA v :
            IF found THEN update_locations(v, row) ELSE insert_locations(v, row))

\* POST /location, second step: the write and the commit.
update_location_write(r, fault) ==
    LET res == update_location_statements(db, r.caller, r.req, r.found, r.at, fault) IN
    /\ db' = session_scope(db, res)
    /\ Finish(r, IF res.exc = "none" THEN Response(200, "", [kind |-> "ok", ok |-> TRUE])
                 ELSE InternalError)
    /\ UNCHANGED <<now, held>>

\* The sequences that hold each element of S once.
Orderings(S) ==
    {s \in [1..Cardinality(S) -> S] : \A i, j \in 1..Cardinality(S) : i # j => s[i] # s[j]}

nearby_rows_with_caller(d, caller, lat, lng) ==
    {[user_id |-> u.id, email |-> u.email, display_name |-> u.display_name,
      pace |-> NULL, bike_type |-> NULL,
      distance_m |-> haversine_m(lat, lng, l.lat, l.lng)] :
        <<u, l>> \in {ul \in d.users \X d.locations : ul[2].user_id = ul[1].id}}

\* users JOIN locations LEFT JOIN profiles WHERE users.id != caller, with the
\* distance of each row from the query point.
nearby_rows(d, caller, lat, lng) ==
    {[user_id |-> u.id, email |-> u.email, display_name |-> u.display_name,
      pace |-> IF ProfileOf(d, u.id) = {} THEN NULL
               ELSE (CHOOSE p \in ProfileOf(d, u.id) : TRUE).pace,
      bike_type |-> IF ProfileOf(d, u.id) = {} THEN NULL
                    ELSE (CHOOSE p \in ProfileOf(d, u.id) : TRUE).bike_type,
      distance_m |-> haversine_m(lat, lng, l.lat, l.lng)] :
        <<u, l>> \in {ul \in d.users \X d.locations :
                        ul[2].user_id = ul[1].id /\ ul[1].id # caller}}

\* The answers nearby may give: the rows within the radius, ascending by
\* distance (rows at the same distance in any order: the SELECT has no ORDER BY).
nearby_items(d, caller, q) ==
    LET within == {r \in nearby_rows(d, caller, q.lat, q.lng) : r.distance_m <= q.radius_km * 1000}
    IN {s \in Orderings(within) :
           \A i, j \in 1..Len(s) : i < j => s[i].distance_m <= s[j].distance_m}

\* GET /nearby
nearby_search(creds, q) ==
    LET auth == get_current_user(creds, db, now) IN
    /\ IF ~auth.ok
       THEN Answer("nearby", creds, NoUser, q, auth.resp)
       ELSE IF ~(q.radius_km > 0 /\ q.radius_km <= 200)
       THEN Answer("nearby", creds, auth.id, q, ValidationError)
       ELSE \E items \in nearby_items(db, auth.id, q) :
               Answer("nearby", creds, auth.id, q,
                      Response(200, "", [kind |-> "nearby", items |-> items]))
    /\ UNCHANGED <<db, now, held>>

----------------------------------------------------------------------------
\* Messaging (routes_messaging.py).

ConversationIds == {"c1", "c2"}
Texts == {"", "hi", "yo"}

IsParticipant(d, conversation_id, user_id) ==
    [conversation_id |-> conversation_id, user_id |-> user_id] \in d.conversation_participants

_ensure_participant_always(d, conversation_id, user_id) == Txn(d)

\* _ensure_participant: 403 unless the membership row exists.
_ensure_participant(d, conversation_id, user_id) ==
    IF IsParticipant(d, conversation_id, user_id) THEN Txn(d) ELSE Raise(d, "http")

Forbidden == Response(403, "Not a participant in this conversation", NoBody)

ConversationExists(d, conversation_id) == \E c \in d.conversations : c.id = conversation_id

MessagesOf(d, conversation_id) == {m \in d.messages : m.conversation_id = conversation_id}

MessageItem(m, user_id) ==
    [id |-> m.id, text |-> m.text, created_at |-> m.created_at, is_mine |-> m.sender_id = user_id]

messages_items_unordered(d, conversation_id, user_id) ==
    {[i \in 1..Len(s) |-> MessageItem(s[i], user_id)] :
        s \in Orderings({m \in d.messages : m.conversation_id = conversation_id})}

\* The answers get_messages may give: the conversation's messages ascending by
\* created_at (messages of one instant in any order).
messages_items(d, conversation_id, user_id) ==
    {[i \in 1..Len(s) |-> MessageItem(s[i], user_id)] :
        s \in {o \in Orderings(MessagesOf(d, conversation_id)) :
                 \A i, j \in 1..Len(o) : i < j => o[i].created_at <= o[j].created_at}}

\* GET /conversations/{conversation_id}/messages
get_messages(creds, conversation_id) ==
    LET auth == get_current_user(creds, db, now)
        req == [conversation_id |-> conversation_id]
    IN
    /\ IF ~auth.ok
       THEN Answer("get_messages", creds, NoUser, req, auth.resp)
       ELSE IF _ensure_participant(db, conversation_id, auth.id).exc # "none"
       THEN Answer("get_messages", creds, auth.id, req, Forbidden)
       ELSE \E items \in messages_items(db, conversation_id, auth.id) :
               Answer("get_messages", creds, auth.id, req,
                      Response(200, "", [kind |-> "messages", items |-> items]))
    /\ UNCHANGED <<db, now, held>>

\* The items list_conversations may give for one conversation of the caller:
\* the title from any other participant (display name, else email, else the
\* literal), the text of a most recent message (else empty).
conversation_items(d, conversation_id, user_id) ==
    LET others == {u \in d.users : u.id # user_id /\ IsParticipant(d, conversation_id, u.id)}
        titles == IF others = {} THEN {"Conversation"}
                  ELSE {IF u.display_name \notin {NULL, ""} THEN u.display_name
                        ELSE IF u.email # "" THEN u.email ELSE "Conversation" : u \in others}
        msgs == MessagesOf(d, conversation_id)
        latest == {m \in msgs : \A n \in msgs : n.created_at <= m.created_at}
        previews == IF msgs = {} THEN {""} ELSE {m.text : m \in latest}
    IN {[id |-> conversation_id, title |-> t, last_message |-> x] : t \in titles, x \in previews}

\* GET /conversations
list_conversations(creds) ==
    LET auth == get_current_user(creds, db, now) IN
    /\ IF ~auth.ok
       THEN Answer("list_conversations", creds, NoUser, NoBody, auth.resp)
       ELSE LET mine == {p.conversation_id : p \in {q \in db.conversation_participants :
                                                     q.user_id = auth.id}}
            IN \E items \in {S \in SUBSET UNION {conversation_items(db, c, auth.id) : c \in mine} :
                               \A c \in mine : Cardinality({i \in S : i.id = c}) = 1} :
                  Answer("list_conversations", creds, auth.id, NoBody,
                         Response(200, "", [kind |-> "conversations", items |-> items]))
    /\ UNCHANGED <<db, now, held>>

\* POST /conversations/{conversation_id}/messages, first step: the guard,
\* the validation and the SELECT of the conversation.
send_message_select(creds, conversation_id, text) ==
    LET auth == get_current_user(creds, db, now)
        req == [conversation_id |-> conversation_id, text |-> text]
    IN
    /\ IF ~auth.ok
       THEN Answer("send_message", creds, NoUser, req, auth.resp)
       ELSE IF Len(text) < 1
       THEN Answer("send_message", creds, auth.id, req, ValidationError)
       ELSE /\ Cardinality(db.messages) + BagCardinality(inflight) < MaxMessages
            /\ Enter(Request("send_message", creds, auth.id, req,
                             ConversationExists(db, conversation_id), now))
    /\ UNCHANGED <<db, now, held>>

insert_conversations(d, row) ==
    IF ConversationExists(d, row.id) THEN Raise(d, "sql")
    ELSE Txn([d EXCEPT !.conversations = @ \cup {row}])

insert_conversation_participants(d, row) ==
    IF row \in d.conversation_participants \/ ~ConversationExists(d, row.conversation_id)
         \/ UserById(d, row.user_id) = {}
    THEN Raise(d, "sql")
    ELSE Txn([d EXCEPT !.conversation_participants = @ \cup {row}])

insert_messages(d, row) ==
    IF (\E m \in d.messages : m.id = row.id) \/ ~ConversationExists(d, row.conversation_id)
         \/ UserById(d, row.sender_id) = {}
    THEN Raise(d, "sql")
    ELSE Txn([d EXCEPT !.messages = @ \cup {row}])

send_message_statements_no_participant(d, user_id, req, found, msg_id, at, fault) ==
    LET s1 == IF found THEN Txn(d)
              ELSE Stmt(Txn(d), 1, fault, LAMBDA v :
                        insert_conversations(v, [id |-> req.conversation_id, created_at |-> at]))
        s3 == Stmt(s1, 3, fault, LAMBDA v : _ensure_participant(v, req.conversation_id, user_id))
    IN Stmt(s3, 4, fault, LAMBDA v :
            insert_messages(v, [id |-> msg_id, conversation_id |-> req.conversation_id,
                                sender_id |-> user_id, text |-> req.text, created_at |-> at]))

send_message_statements_joining(d, user_id, req, found, msg_id, at, fault) ==
    LET s1 == IF found THEN Txn(d)
              ELSE Stmt(Txn(d), 1, fault, LAMBDA v :
                        insert_conversations(v, [id |-> req.conversation_id, created_at |-> at]))
        s2 == Stmt(s1, 2, fault, LAMBDA v :
                     IF IsParticipant(v, req.conversation_id, user_id) THEN Txn(v)
                     ELSE insert_conversation_participants(v,
                              [conversation_id |-> req.conversation_id, user_id |-> user_id]))
        s3 == Stmt(s2, 3, fault, LAMBDA v : _ensure_participant(v, req.conversation_id, user_id))
    IN Stmt(s3, 4, fault, LAMBDA v :
            insert_messages(v, [id |-> msg_id, conversation_id |-> req.conversation_id,
                                sender_id |-> user_id, text |-> req.text, created_at |-> at]))

\* The statements of send_message after its SELECT of the conversation.
send_message_statements(d, user_id, req, found, msg_id, at, fault) ==
    LET s1 == IF found THEN Txn(d)
              ELSE Stmt(Txn(d), 1, fault, LAMBDA v :
                        insert_conversations(v, [id |-> req.conversation_id, created_at |-> at]))
        s2 == IF found THEN s1
              ELSE Stmt(s1, 2, fault, LAMBDA v :
                        insert_conversation_participants(v,
                            [conversation_id |-> req.conversation_id, user_id |-> user_id]))
        s3 == Stmt(s2, 3, fault, LAMBDA v : _ensure_participant(v, req.conversation_id, user_id))
    IN Stmt(s3, 4, fault, LAMBDA v :
            insert_messages(v, [id |-> msg_id, conversation_id |-> req.conversation_id,
                                sender_id |-> user_id, text |-> req.text, created_at |-> at]))

\* POST /conversations/{conversation_id}/messages, second step: the INSERTs,
\* the participant check and the commit.
send_message_write(r, fault) ==
    LET msg_id == FreshId(db.messages)
        res == send_message_statements(db, r.caller, r.req, r.found, msg_id, r.at, fault)
    IN
    /\ db' = session_scope(db, res)
    /\ Finish(r, IF res.exc = "none"
                 THEN Response(200, "", [kind |-> "message", id |-> msg_id, text |-> r.req.text,
                                         created_at |-> r.at, is_mine |-> TRUE])
                 ELSE IF res.exc = "http" THEN Forbidden
                 ELSE InternalError)
    /\ UNCHANGED <<now, held>>

----------------------------------------------------------------------------
\* Rides (routes_rides.py).

Titles == {"", "Saturday Loop"}

RideResponse(row) == [kind |-> "ride", row |-> row]

\* POST /rides, first step: the guard, and the INSERT with created_at read
\* from the clock (default=_utcnow); the row is not yet visible to others.
create_ride(creds, req, max) ==
    LET auth == get_current_user(creds, db, now) IN
    /\ IF ~auth.ok
       THEN Answer("create_ride", creds, NoUser, req, auth.resp)
       ELSE /\ Cardinality(db.rides) + BagCardinality(inflight) < max
            /\ Enter(Request("create_ride", creds, auth.id, req, FALSE, now))
    /\ UNCHANGED <<db, now, held>>

\* POST /rides, second step: the SELECT of the new row, the commit and the
\* response.
create_ride_commit(r) ==
    LET row == [id |-> FreshId(db.rides), creator_id |-> r.caller, title |-> r.req.title,
                date |-> r.req.date, created_at |-> r.at]
    IN
    /\ db' = [db EXCEPT !.rides = @ \cup {row}]
    /\ Finish(r, Response(200, "", RideResponse(row)))
    /\ UNCHANGED <<now, held>>

\* ORDER BY created_at DESC over the rows created at instants lo..hi: the
\* rows of the later instants first, the rows of one instant in any order.
RECURSIVE rides_between(_, _, _)
rides_between(rows, lo, hi) ==
    IF lo > hi THEN {<<>>}
    ELSE IF lo = hi THEN Orderings({r \in rows : r.created_at = lo})
    ELSE LET mid == (lo + hi) \div 2
         IN {a \o b : a \in rides_between(rows, mid + 1, hi), b \in rides_between(rows, lo, mid)}

\* Every created_at is a reading of the clock, so none is later than t.
rides_ordered(rows, t) == rides_between(rows, 0, t)

rides_items_unlimited(d, t) == rides_ordered(d.rides, t)

\* The answers list_rides may give at clock t: the ListLimit most recent
\* rides, descending by created_at.
rides_items(d, t) ==
    {SubSeq(s, 1, IF Len(s) < ListLimit THEN Len(s) ELSE ListLimit) :
        s \in rides_ordered(d.rides, t)}

\* GET /rides
list_rides(creds) ==
    LET auth == get_current_user(creds, db, now) IN
    /\ IF ~auth.ok
       THEN Answer("list_rides", creds, NoUser, NoBody, auth.resp)
       ELSE \E items \in rides_items(db, now) :
               Answer("list_rides", creds, auth.id, NoBody,
                      Response(200, "", [kind |-> "rides", items |-> items]))
    /\ UNCHANGED <<db, now, held>>

\* GET /rides/{ride_id}
get_ride(creds, ride_id) ==
    LET auth == get_current_user(creds, db, now)
        req == [ride_id |-> ride_id]
        rows == {r \in db.rides : r.id = ride_id}
    IN
    /\ IF ~auth.ok
       THEN Answer("get_ride", creds, NoUser, req, auth.resp)
       ELSE IF rows = {}
       THEN Answer("get_ride", creds, auth.id, req, Response(404, "Ride not found", NoBody))
       ELSE Answer("get_ride", creds, auth.id, req,
                   Response(200, "", RideResponse(CHOOSE r \in rows : TRUE)))
    /\ UNCHANGED <<db, now, held>>

----------------------------------------------------------------------------
\* Inputs.

NoFault == 0
Faults == 0..4

RegisterRequests == [email : Emails, password : Passwords, display_name : DisplayNames]
LoginRequests == [email : Emails, password : Passwords]

\* The token login issues at clock 0 to user i.
TokenOf(i) == create_access_token(i, 0)
UserTokens == {TokenOf(i) : i \in UserIds}

\* A token of user 1 issued one lifetime before the clock's origin.
ExpiredToken ==
    [TokenOf(1) EXCEPT !.iat = 0 - JwtExpiresMinutes * SecondsPerMinute, !.exp = 0]

\* What a client may present: nothing, garbage, a token signed with another
\* key, an expired token, and the token of every subject.
Credentials ==
    {NoCredentials, Garbage, [TokenOf(1) EXCEPT !.sig = "HS256:other"], ExpiredToken}
        \cup {TokenOf(i) : i \in SubjectIds}

NoUpdate ==
    [display_name |-> NULL, bio |-> NULL, pace |-> NULL, bike_type |-> NULL,
     looking_for |-> NULL, home_base |-> NULL]
ProfileUpdates ==
    {NoUpdate, [NoUpdate EXCEPT !.bio = "new"], [NoUpdate EXCEPT !.display_name = "Bea"],
     [NoUpdate EXCEPT !.display_name = "", !.pace = "fast"],
     [NoUpdate EXCEPT !.bike_type = "gravel", !.looking_for = "", !.home_base = "Gent"]}

Points == [lat : {0, 1}, lng : {0, 1}]
LocationRequests == Points \cup {[lat |-> 91, lng |-> 0]}
NearbyQueries == [lat : {0}, lng : {0}, radius_km : {0, 1, 112, 200}]
RideRequests == [title : Titles, date : {NULL, "2026-01-01"}]

----------------------------------------------------------------------------
\* Next-state relations: the operations of each group, over given inputs.

Registration(requests, faults) ==
    \/ \E req \in requests : register_select(req)
    \/ \E r \in InFlight("register"), f \in faults : register_insert(r, f)

Login(requests) == \E req \in requests : login(req)

ProfileWrites(credentials, updates, faults) ==
    \/ \E c \in credentials, req \in updates : update_me_select(c, req)
    \/ \E r \in InFlight("update_me"), f \in faults : update_me_write(r, f)

ProfileReads(credentials) ==
    \/ \E c \in credentials : me(c)
    \/ \E c \in credentials, i \in UserIds : get_profile(c, i)

LocationWrites(credentials, requests, faults) ==
    \/ \E c \in credentials, req \in requests : update_location_select(c, req)
    \/ \E r \in InFlight("update_location"), f \in faults : update_location_write(r, f)

Nearby(credentials, queries) == \E c \in credentials, q \in queries : nearby_search(c, q)

MessageWrites(credentials, conversation_ids, texts, faults) ==
    \/ \E c \in credentials, i \in conversation_ids, x \in texts : send_message_select(c, i, x)
    \/ \E r \in InFlight("send_message"), f \in faults : send_message_write(r, f)

MessageReads(credentials, conversation_ids) ==
    \/ \E c \in credentials, i \in conversation_ids : get_messages(c, i)
    \/ \E c \in credentials : list_conversations(c)

Rides(credentials, requests, max) ==
    \/ \E c \in credentials, req \in requests : create_ride(c, req, max)
    \/ \E r \in InFlight("create_ride") : create_ride_commit(r)
    \/ \E c \in credentials : list_rides(c)
    \/ \E c \in credentials, i \in 1..MaxRides : get_ride(c, i)

\* The whole service.
Next ==
    \/ Registration(RegisterRequests, Faults)
    \/ Login(LoginRequests)
    \/ ProfileWrites(Credentials, ProfileUpdates, Faults)
    \/ ProfileReads(Credentials)
    \/ LocationWrites(Credentials, LocationRequests, Faults)
    \/ Nearby(Credentials, NearbyQueries)
    \/ MessageWrites(Credentials, ConversationIds, Texts, Faults)
    \/ MessageReads(Credentials, ConversationIds)
    \/ Rides(Credentials, RideRequests, MaxRides)
    \/ Tick(MaxTokenTime)
    \/ Deliver

Spec == Init /\ [][Next]_vars

\* Account operations under every interleaving.
NextAccount ==
    \/ Registration(RegisterRequests, {NoFault})
    \/ Login(LoginRequests)
    \/ Deliver

SpecAccount == Init /\ [][NextAccount]_vars

\* The operations that write users, profiles and locations, with store
\* failures at any statement.
NextIntegrity ==
    \/ Registration([email : Emails, password : {"secret1"}, display_name : {"Ann"}], Faults)
    \/ ProfileWrites(UserTokens, {[NoUpdate EXCEPT !.display_name = "Bea"]}, Faults)
    \/ LocationWrites(UserTokens, {[lat |-> 0, lng |-> 1]}, Faults)
    \/ Deliver

SpecIntegrity == Init /\ [][NextIntegrity]_vars

\* Every guarded operation under every credential.
NextGuard ==
    \/ Registration([email : {"a@x"}, password : {"secret1"}, display_name : {"Ann"}], {NoFault})
    \/ ProfileReads(Credentials)
    \/ ProfileWrites(Credentials, {[NoUpdate EXCEPT !.bio = "new"]}, {NoFault})
    \/ LocationWrites(Credentials, {[lat |-> 0, lng |-> 1]}, {NoFault})
    \/ Nearby(Credentials, {[lat |-> 0, lng |-> 0, radius_km |-> 112]})
    \/ MessageWrites(Credentials, {"c1"}, {"hi"}, {NoFault})
    \/ MessageReads(Credentials, {"c1"})
    \/ Rides(Credentials, {[title |-> "Saturday Loop", date |-> NULL]}, MaxRides)
    \/ Deliver

SpecGuard == Init /\ [][NextGuard]_vars

\* Tokens over their whole lifetime: accounts and logins up to clock MaxNow,
\* then the guard against the held token while the clock runs past its expiry.
NextToken ==
    \/ now <= MaxNow /\ Registration([email : {"a@x"}, password : {"secret1"}, display_name : {"Ann"}], {NoFault})
    \/ now <= MaxNow /\ Login([email : Emails, password : {"secret1"}])
    \/ ProfileReads({held.token})
    \/ Tick(MaxTokenTime)
    \/ Deliver

SpecToken == Init /\ [][NextToken]_vars

\* Messaging between two registered users.
NextMessaging ==
    \/ Registration([email : Emails, password : {"secret1"}, display_name : {"Ann"}], {NoFault})
    \/ MessageWrites(UserTokens, ConversationIds, {"", "hi"}, {NoFault})
    \/ MessageReads(UserTokens, ConversationIds)
    \/ Tick(1)
    \/ Deliver

SpecMessaging == Init /\ [][NextMessaging]_vars

\* Profile updates by two registered users while time passes.
NextProfile ==
    \/ Registration([email : Emails, password : {"secret1"}, display_name : {"Ann"}], {NoFault})
    \/ ProfileWrites(UserTokens, {NoUpdate, [NoUpdate EXCEPT !.bio = "new"],
                                   [NoUpdate EXCEPT !.display_name = "Bea", !.pace = "fast"]},
                     {NoFault})
    \/ Tick(1)
    \/ Deliver

SpecProfile == Init /\ [][NextProfile]_vars

\* Location updates by two registered users.
NextLocation ==
    \/ Registration([email : Emails, password : {"secret1"}, display_name : {"Ann"}], {NoFault})
    \/ LocationWrites(UserTokens, {[lat |-> 0, lng |-> 0], [lat |-> 0, lng |-> 1],
                                    [lat |-> 91, lng |-> 0]}, {NoFault})
    \/ Tick(1)
    \/ Deliver

SpecLocation == Init /\ [][NextLocation]_vars

\* Nearby search among three registered users with locations.
NextNearby ==
    \/ Registration([email : {"a@x", "b@x", "c@x"}, password : {"secret1"},
                     display_name : {"Ann"}], {NoFault})
    \/ LocationWrites({TokenOf(i) : i \in 1..3},
                      {[lat |-> 0, lng |-> 0], [lat |-> 1, lng |-> 1]}, {NoFault})
    \/ Nearby({TokenOf(1)}, [lat : {0}, lng : {0}, radius_km : {0, 112, 200}])
    \/ Deliver

SpecNearby == Init /\ [][NextNearby]_vars

\* Rides created and listed by two registered users while time passes.
NextRides ==
    \/ Registration([email : Emails, password : {"secret1"}, display_name : {"Ann"}], {NoFault})
    \/ Rides(UserTokens, [title : Titles, date : {NULL}], MaxRides)
    \/ Tick(1)
    \/ Deliver

SpecRides == Init /\ [][NextRides]_vars

\* One user filling the ride list past ListLimit.  After the first instant
\* the clock advances once per ride, so that all but two rides have distinct
\* creation times; the user logs in again when the held token has expired.
NextRideLimit ==
    \/ Registration([email : {"a@x"}, password : {"secret1"}, display_name : {"Ann"}], {NoFault})
    \/ /\ ~get_current_user(held.token, db, now).ok
       /\ Login([email : {"a@x"}, password : {"secret1"}])
    \/ /\ Cardinality({r \in db.rides : r.created_at = now}) + BagCardinality(inflight)
             < (IF now = 0 THEN 2 ELSE 1)
       /\ create_ride(held.token, [title |-> "Saturday Loop", date |-> NULL], ListLimit + 1)
    \/ \E r \in InFlight("create_ride") : create_ride_commit(r)
    \/ list_rides(held.token)
    \/ (\E r \in db.rides : r.created_at = now) /\ Tick(ListLimit + 1)
    \/ Deliver

SpecRideLimit == Init /\ [][NextRideLimit]_vars

\* Registrations and display-name updates of two users, overlapping and
\* failing at any statement.
NextDisplayName ==
    \/ Registration([email : Emails, password : {"secret1"}, display_name : DisplayNames], Faults)
    \/ ProfileWrites(UserTokens, {[NoUpdate EXCEPT !.display_name = "Bea"],
                                   [NoUpdate EXCEPT !.display_name = "Cy"],
                                   [NoUpdate EXCEPT !.bio = "new"]}, Faults)
    \/ Deliver

SpecDisplayName == Init /\ [][NextDisplayName]_vars

\* Conversations of two registered users, with sends overlapping and failing
\* at any statement.
NextConversations ==
    \/ Registration([email : Emails, password : {"secret1"}, display_name : {"Ann"}], {NoFault})
    \/ MessageWrites(UserTokens, ConversationIds, {"hi"}, Faults)
    \/ MessageReads(UserTokens, ConversationIds)
    \/ Deliver

SpecConversations == Init /\ [][NextConversations]_vars

----------------------------------------------------------------------------
\* Properties.

\* A response was returned in this step.
Responded == last = NoResponse /\ last' # NoResponse

UsersWithEmail(d, email) == {u \in d.users : u.email = email}

\* C1: a register that runs with no other request in flight succeeds when its
\* email is not yet registered, creating exactly one User row and one default
\* Profile row, and fails with 409 Conflict when the email is registered; a
\* register answered 409 leaves the store unchanged.
C1_RegisterTwice ==
    [][(Responded /\ last'.op = "register" /\ last'.status # 422) =>
        LET req == last'.req
            taken == UsersWithEmail(db, req.email) # {}
        IN /\ (last'.solo /\ ~taken) => last'.status = 201
           /\ (last'.solo /\ taken) => last'.status = 409
           /\ last'.status = 409 => (taken /\ db' = db)
           /\ last'.status = 201 =>
                \E u \in db'.users, p \in db'.profiles :
                    /\ u \notin db.users /\ p \notin db.profiles
                    /\ db' = [db EXCEPT !.users = @ \cup {u}, !.profiles = @ \cup {p}]
                    /\ u.email = req.email /\ u.display_name = req.display_name
                    /\ last'.body.id = u.id
                    /\ \A v \in db.users : v.id # u.id
                    /\ p = [user_id |-> u.id, display_name |-> req.display_name,
                            bio |-> "", pace |-> "casual", bike_type |-> "road",
                            looking_for |-> "friends", home_base |-> "",
                            updated_at |-> p.updated_at]]_vars

\* C1 witness: a second register of a registered email was answered 409.
C1_Witness ==
    /\ last.op = "register" /\ last.status = 409 /\ last.solo
    /\ Cardinality(db.users) = 1 /\ Cardinality(db.profiles) = 1
    /\ UsersWithEmail(db, last.req.email) # {}

\* C2: every register is answered 201 or 409 (of two concurrent registers of
\* one email one succeeds, the other fails with Conflict), and no two User
\* rows share an email.
C2_ConcurrentRegister ==
    [][/\ (Responded /\ last'.op = "register" /\ last'.status # 422)
            => last'.status \in {201, 409}
       /\ \A e \in Emails : Cardinality(UsersWithEmail(db', e)) <= 1]_vars

\* C6: login with an unknown email and login with a known email and a wrong
\* password are answered by the same response, 401 "Invalid credentials"
\* without a token, and change nothing.
C6_LoginUniformFailure ==
    [][(Responded /\ last'.op = "login") =>
        LET req == last'.req
            matches == {u \in db.users : u.email = req.email
                          /\ u.password_hash = <<"bcrypt", req.password>>}
        IN matches = {} =>
            /\ last'.status = 401 /\ last'.detail = "Invalid credentials"
            /\ last'.body = [kind |-> "none"]
            /\ db' = db /\ held' = held]_vars

\* C6 witness: a login with a registered email and a wrong password was refused.
C6_Witness ==
    /\ last.op = "login" /\ last.status = 401
    /\ \E u \in db.users : u.email = last.req.email
                             /\ u.password_hash # <<"bcrypt", last.req.password>>

\* C3: in every committed state every User has a Profile row, and every
\* Profile row and every Location row belongs to an existing User.
C3_ReferentialIntegrity ==
    /\ \A u \in db.users : \E p \in db.profiles : p.user_id = u.id
    /\ \A p \in db.profiles : \E u \in db.users : u.id = p.user_id
    /\ \A l \in db.locations : \E u \in db.users : u.id = l.user_id

\* C3 witness: an operation failed in its transaction, with users and a
\* location committed.
C3_Witness ==
    /\ last.status = 500 /\ last.op = "register"
    /\ db.users # {} /\ db.locations # {}

GuardedOps ==
    {"me", "get_profile", "update_me", "update_location", "nearby", "list_conversations",
     "get_messages", "send_message", "list_rides", "create_ride", "get_ride"}

\* The credential is missing, does not decode at clock t (malformed, signed
\* with another key, expired) or names a subject that is no User of d.
Unacceptable(c, d, t) ==
    \/ c.kind # "jwt"
    \/ c.sig # "HS256:secret"
    \/ c.exp * TicksPerSecond <= t
    \/ \A u \in d.users : u.id # c.sub

\* C4: a guarded operation invoked with an unacceptable credential is answered
\* 401 in its first step, is never admitted to its handler, and leaves the
\* store unchanged.
C4_GuardRejects ==
    [][\A c \in Credentials : Unacceptable(c, db, now) =>
        /\ \A r \in BagToSet(inflight') :
              (r.op \in GuardedOps /\ r.creds = c) => CopiesIn(r, inflight') <= CopiesIn(r, inflight)
        /\ (Responded /\ last'.op \in GuardedOps /\ last'.step = 1 /\ last'.creds = c)
              => (last'.status = 401 /\ last'.caller = 0 /\ db' = db)]_vars

\* C4 witness: a well-signed, unexpired token of a subject that is no User was
\* refused while users exist.
C4_Witness ==
    /\ last.op = "update_location" /\ last.status = 401
    /\ last.creds.kind = "jwt" /\ last.creds.sig = "HS256:secret"
    /\ last.creds.exp * TicksPerSecond > now
    /\ db.users # {} /\ \A u \in db.users : u.id # last.creds.sub

\* C5 (as amended): a token login issued at clock t to user u is resolved by
\* the guard to u at every time before its encoded expiry, which is the whole
\* second of t plus the lifetime, and refused with 401 from then on.
C5_TokenLifetime ==
    held # NoToken =>
        LET token == held.token
            auth == get_current_user(token, db, now)
            expiry == ((held.at \div TicksPerSecond) + JwtExpiresMinutes * 60) * TicksPerSecond
        IN /\ \E u \in db.users : u.email = held.email /\ u.id = token.sub
           /\ now < expiry => (auth.ok /\ auth.id = token.sub)
           /\ now >= expiry => (~auth.ok /\ auth.resp.status = 401)

\* C5 witness: a token issued within a second is held past its expiry.
C5_Witness ==
    /\ held # NoToken /\ held.at % TicksPerSecond # 0
    /\ now >= held.token.exp * TicksPerSecond
    /\ last.op = "me" /\ last.creds = held.token /\ last.status = 401

\* C5 (as claimed): the token is resolved at every time before t + m minutes
\* and refused at every time after t + m minutes.
C5_TokenLifetime_Claimed ==
    held # NoToken =>
        LET auth == get_current_user(held.token, db, now)
            end == held.at + JwtExpiresMinutes * 60 * TicksPerSecond
        IN /\ now < end => (auth.ok /\ auth.id = held.token.sub)
           /\ now > end => (~auth.ok /\ auth.resp.status = 401)

ParticipantsOf(d, conversation_id) ==
    {p.user_id : p \in {q \in d.conversation_participants : q.conversation_id = conversation_id}}

C8_NonParticipantForbidden ==
    [][(Responded /\ last'.op \in {"get_messages", "send_message"} /\ last'.caller # 0
          /\ last'.status # 422) =>
        LET cid == last'.req.conversation_id
            exists == \E c \in db.conversations : c.id = cid
            member == last'.caller \in ParticipantsOf(db, cid)
            refused == /\ last'.status = 403
                       /\ last'.detail = "Not a participant in this conversation"
                       /\ last'.body = [kind |-> "none"]
                       /\ db' = db
        IN /\ (last'.op = "get_messages" /\ ~member) => refused
           /\ (last'.op = "send_message" /\ exists /\ ~member /\ last'.solo) => refused
           /\ last'.status = 403 => (refused /\ ~member)]_vars

\* C8 witness: send_message to another user's conversation was answered 403.
C8_Witness ==
    /\ last.op = "send_message" /\ last.status = 403 /\ last.solo
    /\ \E c \in db.conversations : c.id = last.req.conversation_id
    /\ last.caller \notin ParticipantsOf(db, last.req.conversation_id)
    /\ ParticipantsOf(db, last.req.conversation_id) # {}

\* What update_me may change, the profile's last-updated timestamp aside:
\* the caller's profile takes each supplied non-null field and keeps the
\* others, the caller's users row takes display_name when supplied, and
\* nothing else changes; the response is the resulting profile.
ProfileUpdateApplied ==
    LET u == last'.caller
        req == last'.req
        before == CHOOSE p \in db.profiles : p.user_id = u
        after == CHOOSE p \in db'.profiles : p.user_id = u
    IN /\ last'.status = 200
       /\ Cardinality({p \in db'.profiles : p.user_id = u}) = 1
       /\ \A f \in ProfileFields : after[f] = IF req[f] # NULL THEN req[f] ELSE before[f]
       /\ last'.body = [kind |-> "profile", row |-> after]
       /\ {p \in db'.profiles : p.user_id # u} = {p \in db.profiles : p.user_id # u}
       /\ db'.users = {IF v.id = u /\ req.display_name # NULL
                       THEN [v EXCEPT !.display_name = req.display_name] ELSE v : v \in db.users}
       /\ db'.locations = db.locations /\ db'.conversations = db.conversations
       /\ db'.conversation_participants = db.conversation_participants
       /\ db'.messages = db.messages /\ db'.rides = db.rides

\* C9: update_me applies exactly the supplied non-null fields to the caller's
\* profile and refreshes its last-updated timestamp; every other field of that
\* profile and every other user's rows stay as they were; the caller's users
\* row changes only in display_name, only when display_name is supplied, and
\* then to that value.
C9_PartialUpdate ==
    [][(Responded /\ last'.op = "update_me" /\ last'.caller # 0) =>
        /\ ProfileUpdateApplied
        /\ (CHOOSE p \in db'.profiles : p.user_id = last'.caller).updated_at = now]_vars

\* C9 witness: an update that supplied only bio was applied to a profile
\* whose display_name had been set before.
C9_Witness ==
    /\ last.op = "update_me" /\ last.status = 200
    /\ last.req.bio = "new" /\ last.req.display_name = NULL
    /\ \E p \in db.profiles :
          p.user_id = last.caller /\ p.bio = "new" /\ p.display_name = "Bea" /\ p.updated_at = 1
    /\ \E v \in db.users : v.id = last.caller /\ v.display_name = "Bea"

\* C9 as claimed: every profile field that is not supplied, the last-updated
\* timestamp among them, is left unchanged.
C9_PartialUpdate_Claimed ==
    [][(Responded /\ last'.op = "update_me" /\ last'.caller # 0) =>
        /\ ProfileUpdateApplied
        /\ (CHOOSE p \in db'.profiles : p.user_id = last'.caller).updated_at
              = (CHOOSE p \in db.profiles : p.user_id = last'.caller).updated_at]_vars

\* C10 as claimed: every update_location call of an authenticated user with
\* valid coordinates, whatever else is in flight, returns ok and leaves the
\* user with exactly one location row, holding the coordinates of that call.
C10_LocationUpsert ==
    [][(Responded /\ last'.op = "update_location" /\ last'.caller # 0 /\ last'.status # 422) =>
        /\ last'.status = 200
        /\ last'.body = [kind |-> "ok", ok |-> TRUE]
        /\ {[lat |-> l.lat, lng |-> l.lng] : l \in {k \in db'.locations : k.user_id = last'.caller}}
              = {last'.req}]_vars

\* C11: nearby with a radius in (0, 200] answers 200 with exactly the users
\* other than the caller whose location row lies within radius_km of the query
\* point, each once, with their distance, in non-decreasing order of distance,
\* and changes nothing; the caller is never among them.
C11_NearbyExact ==
    [][(Responded /\ last'.op = "nearby" /\ last'.caller # 0) =>
        LET q == last'.req
            items == last'.body.items
            near == {u \in db.users :
                        /\ u.id # last'.caller
                        /\ \E l \in db.locations :
                              /\ l.user_id = u.id
                              /\ haversine_m(q.lat, q.lng, l.lat, l.lng) <= q.radius_km * 1000}
        IN IF q.radius_km <= 0 \/ q.radius_km > 200
           THEN last'.status = 422 /\ db' = db
           ELSE /\ last'.status = 200 /\ db' = db
                /\ Len(items) = Cardinality(near)
                /\ {items[i].user_id : i \in 1..Len(items)} = {u.id : u \in near}
                /\ \A i \in 1..Len(items) :
                      /\ items[i].user_id # last'.caller
                      /\ \E u \in near, l \in db.locations :
                            /\ u.id = items[i].user_id /\ l.user_id = u.id
                            /\ items[i].email = u.email
                            /\ items[i].display_name = u.display_name
                            /\ items[i].distance_m = haversine_m(q.lat, q.lng, l.lat, l.lng)
                /\ \A i, j \in 1..Len(items) :
                      i < j => items[i].distance_m <= items[j].distance_m]_vars

\* C11 witness: a caller located at the query point got the two other users,
\* the nearer first, and not itself.
C11_Witness ==
    /\ last.op = "nearby" /\ last.status = 200
    /\ \E l \in db.locations :
          l.user_id = last.caller /\ l.lat = last.req.lat /\ l.lng = last.req.lng
    /\ Len(last.body.items) = 2
    /\ last.body.items[1].distance_m < last.body.items[2].distance_m

\* C12: get_messages by a participant answers 200 with exactly the messages
\* stored for the conversation, each once, in non-decreasing order of
\* created_at, each with is_mine true exactly when its sender is the caller,
\* and changes nothing; no step of any operation changes or removes a message.
C12_MessagesListed ==
    [][/\ db.messages \subseteq db'.messages
       /\ (Responded /\ last'.op = "get_messages" /\ last'.caller # 0
             /\ last'.caller \in ParticipantsOf(db, last'.req.conversation_id)) =>
            LET items == last'.body.items
                stored == {m \in db.messages : m.conversation_id = last'.req.conversation_id}
            IN /\ last'.status = 200 /\ db' = db
               /\ Len(items) = Cardinality(stored)
               /\ {items[i].id : i \in 1..Len(items)} = {m.id : m \in stored}
               /\ \A i \in 1..Len(items) : \E m \in stored :
                     /\ items[i].id = m.id /\ items[i].text = m.text
                     /\ items[i].created_at = m.created_at
                     /\ items[i].is_mine = (m.sender_id = last'.caller)
               /\ \A i, j \in 1..Len(items) :
                     i < j => items[i].created_at <= items[j].created_at]_vars

\* C12 witness: two messages of different instants were listed, the older first.
C12_Witness ==
    /\ last.op = "get_messages" /\ last.status = 200
    /\ Len(last.body.items) = 2
    /\ last.body.items[1].created_at < last.body.items[2].created_at
    /\ last.body.items[1].is_mine /\ last.body.items[2].is_mine

\* C13 as claimed: create_ride with an empty title is answered 422 and stores
\* nothing, a create_ride that succeeds stores one ride with the caller as
\* creator, and every stored ride has a non-empty title.
C13_RideTitleRequired ==
    [][/\ (Responded /\ last'.op = "create_ride" /\ last'.caller # 0) =>
            /\ last'.req.title = "" => (last'.status = 422 /\ db' = db)
            /\ last'.status = 200 =>
                  \E r \in db'.rides :
                      /\ r \notin db.rides /\ db'.rides = db.rides \cup {r}
                      /\ r.creator_id = last'.caller /\ r.title = last'.req.title
       /\ \A r \in db'.rides : r.title # ""]_vars

\* What list_rides answers in every case: 200 with at most ListLimit stored
\* rides, each once, none older than a ride left out, in non-increasing order
\* of creation time; the store is unchanged.
RidesListedLatestFirst ==
    LET items == last'.body.items
        listed == {items[i] : i \in 1..Len(items)}
    IN /\ last'.status = 200 /\ db' = db
       /\ Len(items) = (IF Cardinality(db.rides) < ListLimit
                        THEN Cardinality(db.rides) ELSE ListLimit)
       /\ listed \subseteq db.rides
       /\ Cardinality(listed) = Len(items)
       /\ \A r \in db.rides \ listed : \A x \in listed : r.created_at <= x.created_at
       /\ \A i \in 1..(Len(items) - 1) : items[i].created_at >= items[i + 1].created_at

\* C14: list_rides returns at most 200 rides, those with the latest creation
\* times, in non-increasing order of creation time; a ride whose creation time
\* is later than that of every other stored ride is the first item.
C14_RidesListed ==
    [][(Responded /\ last'.op = "list_rides" /\ last'.caller # 0) =>
        /\ RidesListedLatestFirst
        /\ \A r \in db.rides :
              (\A o \in db.rides \ {r} : o.created_at < r.created_at) => last'.body.items[1] = r]_vars

\* C14 witness: with more rides stored than the limit, the list held the limit
\* of them, the newest first and the oldest left out.
C14_Witness ==
    /\ last.op = "list_rides" /\ last.status = 200
    /\ Cardinality(db.rides) = ListLimit + 1
    /\ Len(last.body.items) = ListLimit
    /\ \A r \in db.rides : r.created_at <= last.body.items[1].created_at
    /\ \E r \in db.rides : r.created_at = 0 /\ \A i \in 1..ListLimit : last.body.items[i] # r

\* C14 as claimed: the list is as above, and the ride created last (ride ids
\* count the commits, so it is the one with the greatest id) is the first
\* item of a list_rides call that follows it.
C14_RidesListed_Claimed ==
    [][(Responded /\ last'.op = "list_rides" /\ last'.caller # 0) =>
        /\ RidesListedLatestFirst
        /\ db.rides # {} => last'.body.items[1].id = Cardinality(db.rides)]_vars

\* C15 as claimed: a send_message call whose caller is no participant of the
\* conversation when its writes run, whatever else was in flight meanwhile, is
\* answered 200 and makes the caller the sole participant when the
\* conversation does not exist, and is answered 403 Forbidden and stores
\* nothing when another user has created it.
C15_ConcurrentSend ==
    [][(Responded /\ last'.op = "send_message" /\ last'.caller # 0 /\ last'.status # 422
          /\ last'.caller \notin ParticipantsOf(db, last'.req.conversation_id)) =>
        LET cid == last'.req.conversation_id IN
        IF ParticipantsOf(db, cid) = {}
        THEN last'.status = 200 /\ ParticipantsOf(db', cid) = {last'.caller}
        ELSE last'.status = 403 /\ db' = db]_vars

\* C16: in every committed state each user's users.display_name equals the
\* display_name of that user's profile.
C16_DisplayNameInSync ==
    \A u \in db.users : \A p \in db.profiles : p.user_id = u.id => p.display_name = u.display_name

\* C16 witness: of two overlapping update_me calls of one user with different
\* display names, one has committed and the other is still in flight.
C16_Witness ==
    /\ last.op = "update_me" /\ last.status = 200 /\ last.req.display_name = "Cy"
    /\ \E r \in BagToSet(inflight) :
          r.op = "update_me" /\ r.caller = last.caller /\ r.req.display_name = "Bea"
    /\ \E u \in db.users, p \in db.profiles :
          /\ u.id = last.caller /\ p.user_id = u.id
          /\ u.display_name = "Cy" /\ p.display_name = "Cy"

====
